---- MODULE Spec2Model ----
(***************************************************************************)
(* Model of the two Netlify functions of Gemini_ADPR_Stats:                *)
(*   - the text-mode handler   (src/unnamed/part_000), which asks the      *)
(*     generation service for four labelled plain-text sections and splits *)
(*     the reply with four regular expressions;                            *)
(*   - the structured-mode handler                                         *)
(*     (src/netlify/functions/generate-scenario.js), which asks for a JSON *)
(*     object and passes the parsed reply through.                         *)
(*                                                                         *)
(* Strings are modelled as sequences of lexical tokens.  A request body    *)
(* and a JSON reply are sequences of JSON tokens; a plain-text reply is a  *)
(* sequence of heading literals, word characters and whitespace.  No       *)
(* heading literal is a substring of another and none can overlap another  *)
(* occurrence (each ends in its only ':'), so every text splits uniquely   *)
(* into heading occurrences and other characters.                          *)
(***************************************************************************)
EXTENDS Integers, Sequences, FiniteSets, TLC

VARIABLES
    apiKeySet,   \* process.env.GEMINI_API_KEY is a non-empty string
    fn,          \* which function the current invocation runs
    pc,          \* "idle", "awaiting" (suspended in generateContent), "done"
    event,       \* the event of the current invocation
    prompt,      \* the prompt handed to generateContent
    calls,       \* generateContent calls started by the current invocation
    upstream,    \* how the generation call settled
    response     \* the value the handler returned

vars == <<apiKeySet, fn, pc, event, prompt, calls, upstream, response>>

\* Longest request body, in tokens.
MaxBodyLen == 5
\* Longest JSON-shaped upstream reply, in tokens.
MaxReplyLen == 5
\* Most sections (a heading followed by a body) in a plain-text reply.
MaxSections == 4

----------------------------------------------------------------------------
(* JavaScript values, as far as the handlers see them. *)

Undefined == [type |-> "undefined", val |-> <<>>]
Null == [type |-> "null", val |-> <<>>]
Str(s) == [type |-> "string", val |-> s]
Obj(m) == [type |-> "object", val |-> m]

\* !v for the values above: undefined, null and "" are falsy.
Falsy(v) == \/ v.type \in {"undefined", "null"}
            \/ v.type = "string" /\ v.val = <<>>

\* The input check written with && for ||: only a body lacking both is refused.
MissingInputBoth(testType, domain) == Falsy(testType) /\ Falsy(domain)

\* The input check with the test of domain forgotten.
MissingInputTestTypeOnly(testType, domain) == Falsy(testType)

\* !testType || !domain, the input check of both handlers.
MissingInput(testType, domain) == Falsy(testType) \/ Falsy(domain)

\* Property read o[k] as done by the destructuring { testType, domain } = o.
Get(o, k) == IF o.type = "object" /\ k \in DOMAIN o.val THEN o.val[k] ELSE Undefined

----------------------------------------------------------------------------
(* JSON.parse on token sequences.  A member token stands for a             *)
(* comma-separated run of "key":"string" members.                          *)

MemberTokens == {"tt", "dm", "sc", "rest"}

Members(tok) ==
    CASE tok = "tt" -> [testType |-> Str(<<"t">>)]
      [] tok = "dm" -> [domain |-> Str(<<"d">>)]
      [] tok = "sc" -> [scenario |-> Str(<<"a">>)]
      [] tok = "rest" -> [dataStructure |-> Str(<<"b">>),
                          hypotheses |-> Str(<<"c">>),
                          spssGuide |-> Str(<<"d">>)]

\* The member list between the braces: members separated by single commas.
IsMemberList(inner) ==
    \/ inner = <<>>
    \/ /\ Len(inner) % 2 = 1
       /\ \A i \in 1..Len(inner) :
            IF i % 2 = 1 THEN inner[i] \in MemberTokens ELSE inner[i] = ","

\* The object a member list denotes; a repeated key keeps its last value.
ObjectOf(inner) ==
    LET idx == {i \in 1..Len(inner) : i % 2 = 1}
        keys == UNION {DOMAIN Members(inner[i]) : i \in idx}
        last(k) == CHOOSE i \in idx :
                      /\ k \in DOMAIN Members(inner[i])
                      /\ \A j \in idx : k \in DOMAIN Members(inner[j]) => j <= i
    IN  Obj([k \in keys |-> Members(inner[last(k)])[k]])

\* JSON.parse: [ok |-> TRUE, value |-> v], or ok = FALSE for a SyntaxError.
JSONParse(toks) ==
    IF toks = <<"null">> THEN [ok |-> TRUE, value |-> Null]
    ELSE IF /\ Len(toks) >= 2
            /\ toks[1] = "{"
            /\ toks[Len(toks)] = "}"
            /\ IsMemberList(SubSeq(toks, 2, Len(toks) - 1))
         THEN [ok |-> TRUE, value |-> ObjectOf(SubSeq(toks, 2, Len(toks) - 1))]
         ELSE [ok |-> FALSE, value |-> Undefined]

----------------------------------------------------------------------------
(* Requests and upstream outcomes. *)

RECURSIVE SeqsUpTo(_, _)
SeqsUpTo(S, n) ==
    IF n = 0 THEN {<<>>}
    ELSE LET shorter == SeqsUpTo(S, n - 1)
         IN  shorter \cup {Append(s, x) : s \in {t \in shorter : Len(t) = n - 1}, x \in S}

BodyTokens == {"{", "}", ",", "null", "tt", "dm"}
Bodies == SeqsUpTo(BodyTokens, MaxBodyLen)
Methods == {"POST", "GET"}
Events == [httpMethod : Methods, body : Bodies]

NoEvent == [httpMethod |-> "NONE", body |-> <<>>]
NoResponse == [statusCode |-> 0, headers |-> {}, body |-> Undefined]
NoUpstream == [kind |-> "none", text |-> <<>>]
UpstreamError == [kind |-> "error", text |-> <<>>]
Reply(t) == [kind |-> "text", text |-> t]

Init ==
    /\ apiKeySet \in BOOLEAN
    /\ fn = "none"
    /\ pc = "idle"
    /\ event = NoEvent
    /\ prompt = <<>>
    /\ calls = 0
    /\ upstream = NoUpstream
    /\ response = NoResponse

----------------------------------------------------------------------------
(* Plain-text replies and the regular expressions of the text-mode handler. *)

HeadingTokens == {"Scenario:", "Data Structure:", "HYPOTHESES:", "SPSS Instructional Guide:"}
Whitespace == {" ", "\n"}

\* Case folding, as the i flag compares characters, of the spellings in use:
\* those of the four patterns, and HYPOTHESES: as a reply may spell it.
Lower(tok) ==
    IF tok = "Scenario:" THEN "scenario:"
    ELSE IF tok = "Data Structure:" THEN "data structure:"
    ELSE IF tok = "Hypotheses:" \/ tok = "HYPOTHESES:" THEN "hypotheses:"
    ELSE IF tok = "SPSS Instructional Guide:" THEN "spss instructional guide:"
    ELSE tok

\* Position of the leftmost occurrence of the literal in text[from..], or 0.
IndexOf(text, lit, from) ==
    LET want == Lower(lit)
        hits == {i \in from..Len(text) : Lower(text[i]) = want}
    IN  IF hits = {} THEN 0 ELSE CHOOSE i \in hits : \A j \in hits : i <= j

NoMatch == [matched |-> FALSE, group1 |-> <<>>]

\* The capture written greedy, ([\s\S]*): it runs to the end of the input.
MatchUntilGreedy(text, lit, nextLit) ==
    LET i == IndexOf(text, lit, 1)
    IN  IF i = 0 THEN NoMatch
        ELSE [matched |-> TRUE, group1 |-> SubSeq(text, i + 1, Len(text))]

\* text.match(/lit([\s\S]*?)(?=nextLit|$)/i): the leftmost occurrence of lit,
\* then the shortest capture that is followed by nextLit or by the end of input.
MatchUntil(text, lit, nextLit) ==
    LET i == IndexOf(text, lit, 1)
        j == IndexOf(text, nextLit, i + 1)
        stop == IF j = 0 THEN Len(text) + 1 ELSE j
    IN  IF i = 0 THEN NoMatch
        ELSE [matched |-> TRUE, group1 |-> SubSeq(text, i + 1, stop - 1)]

\* text.match(/lit([\s\S]*)/i): the leftmost occurrence of lit, then everything.
MatchRest(text, lit) ==
    LET i == IndexOf(text, lit, 1)
    IN  IF i = 0 THEN NoMatch
        ELSE [matched |-> TRUE, group1 |-> SubSeq(text, i + 1, Len(text))]

\* String.prototype.trim.
Trim(s) ==
    LET n == Len(s)
        \* the number of whitespace characters at the start, and at the end
        lead == CHOOSE k \in 0..n :
                  /\ \A j \in 1..k : s[j] \in Whitespace
                  /\ k < n => s[k + 1] \notin Whitespace
        trail == CHOOSE k \in 0..n :
                   /\ \A j \in (n - k + 1)..n : s[j] \in Whitespace
                   /\ k < n => s[n - k] \notin Whitespace
    IN  IF lead = n THEN <<>> ELSE SubSeq(s, lead + 1, n - trail)

ScenarioFallback == <<"Could not parse scenario.">>
DataStructureFallback == <<"Could not parse data structure.">>
HypothesesFallback == <<"Could not parse hypotheses.">>
SpssGuideFallback == <<"Could not parse SPSS instructional guide.">>

\* match ? match[1].trim() : fallback
FieldOf(match, fallback) == IF match.matched THEN Trim(match.group1) ELSE fallback

\* The record the text-mode handler builds from the reply text.
ExtractText(text) ==
    LET scenarioMatch == MatchUntil(text, "Scenario:", "Data Structure:")
        dataStructureMatch == MatchUntil(text, "Data Structure:", "Hypotheses:")
        hypothesesMatch == MatchUntil(text, "Hypotheses:", "SPSS Instructional Guide:")
        spssGuideMatch == MatchRest(text, "SPSS Instructional Guide:")
    IN  [scenario |-> Str(FieldOf(scenarioMatch, ScenarioFallback)),
         dataStructure |-> Str(FieldOf(dataStructureMatch, DataStructureFallback)),
         hypotheses |-> Str(FieldOf(hypothesesMatch, HypothesesFallback)),
         spssGuide |-> Str(FieldOf(spssGuideMatch, SpssGuideFallback))]

\* Plain-text replies: some text before the first heading, then up to
\* MaxSections sections, each a heading followed by a body.
Preambles == {<<>>, <<"v", " ">>}
SectionBodies == {<<" ">>, <<" ", "w", " ", "w", "\n">>, <<"v">>}

Sections == {<<h>> \o b : h \in HeadingTokens, b \in SectionBodies}

RECURSIVE Concat(_, _)
Concat(secs, n) == IF n = 0 THEN <<>> ELSE Concat(secs, n - 1) \o secs[n]


ReplyTokens == {"{", "}", ",", "null", "sc", "rest"}
JsonReplies == SeqsUpTo(ReplyTokens, MaxReplyLen)

----------------------------------------------------------------------------
(* The text-mode handler, src/unnamed/part_000. *)

SyntaxErrorMessage == "Unexpected token in JSON"
TypeErrorMessage == "Cannot destructure property 'testType' of null"
UpstreamErrorMessage == "generateContent failed"

TextPrompt(testType, domain) == <<"text-mode prompt", testType.val, domain.val>>

TextFailure(message) ==
    [statusCode |-> 500,
     headers |-> {},
     body |-> Obj([error |-> Str(<<"Failed to generate scenario: ", message>>)])]

\* From the entry of the handler to its first return or to the generation
\* call: [response, call, prompt]; call says that generateContent is started.
TextHandlerEnter(ev) ==
    LET parsed == JSONParse(ev.body)
        testType == Get(parsed.value, "testType")
        domain == Get(parsed.value, "domain")
        return(r) == [response |-> r, call |-> FALSE, prompt |-> <<>>]
    IN  IF ev.httpMethod # "POST"
        THEN return([statusCode |-> 405,
                     headers |-> {<<"Allow", "POST">>},
                     body |-> Obj([message |-> Str(<<"Method Not Allowed">>)])])
        ELSE IF ~parsed.ok THEN return(TextFailure(SyntaxErrorMessage))
        ELSE IF parsed.value.type = "null" THEN return(TextFailure(TypeErrorMessage))
        ELSE IF MissingInput(testType, domain)
        THEN return([statusCode |-> 400,
                     headers |-> {},
                     body |-> Obj([error |->
                                Str(<<"Missing testType or domain in request body.">>)])])
        ELSE [response |-> NoResponse, call |-> TRUE, prompt |-> TextPrompt(testType, domain)]

\* From the settling of the generation call to the return.
TextHandlerRespond(outcome) ==
    IF outcome.kind = "error" THEN TextFailure(UpstreamErrorMessage)
    ELSE [statusCode |-> 200,
          headers |-> {<<"Content-Type", "application/json">>},
          body |-> Obj(ExtractText(outcome.text))]

TextHandlerStart ==
    /\ pc = "idle"
    /\ \E ev \in Events :
         LET r == TextHandlerEnter(ev)
         IN  /\ fn' = "text"
             /\ event' = ev
             /\ prompt' = r.prompt
             /\ calls' = IF r.call THEN 1 ELSE 0
             /\ pc' = IF r.call THEN "awaiting" ELSE "done"
             /\ response' = r.response
    /\ upstream' = NoUpstream
    /\ UNCHANGED apiKeySet

TextHandlerSettle(outcome) ==
    /\ upstream' = outcome
    /\ response' = TextHandlerRespond(outcome)
    /\ pc' = "done"
    /\ UNCHANGED <<apiKeySet, fn, event, prompt, calls>>

\* generateContent resolves with a reply: a preamble and some sections.
\* The service replies only to a call that carries a credential.
TextHandlerResume ==
    /\ pc = "awaiting"
    /\ fn = "text"
    /\ apiKeySet
    /\ \E pre \in Preambles, n \in 0..MaxSections :
         \E secs \in [1..n -> Sections] :
           LET outcome == Reply(pre \o Concat(secs, n)) IN TextHandlerSettle(outcome)

\* generateContent, result.response or response.text() throws.
TextHandlerCatch ==
    /\ pc = "awaiting"
    /\ fn = "text"
    /\ TextHandlerSettle(UpstreamError)

----------------------------------------------------------------------------
(* The structured-mode handler, src/netlify/functions/generate-scenario.js. *)

StructuredPrompt(testType, domain) == <<"structured-mode prompt", testType.val, domain.val>>

StructuredFailure(message) ==
    [statusCode |-> 500,
     headers |-> {},
     body |-> Obj([error |-> Str(<<"Failed to generate scenario from the AI model.">>),
                   details |-> Str(<<message>>)])]

ConfigurationFailure ==
    [statusCode |-> 500,
     headers |-> {},
     body |-> Obj([error |-> Str(<<"Gemini API key is not configured.">>)])]

StructuredHandlerEnter(ev) ==
    LET parsed == JSONParse(ev.body)
        testType == Get(parsed.value, "testType")
        domain == Get(parsed.value, "domain")
        return(r) == [response |-> r, call |-> FALSE, prompt |-> <<>>]
    IN  IF ev.httpMethod # "POST"
        THEN return([statusCode |-> 405,
                     headers |-> {},
                     body |-> Obj([error |-> Str(<<"Only POST requests are allowed">>)])])
        ELSE IF ~apiKeySet
        THEN return(ConfigurationFailure)
        ELSE IF ~parsed.ok THEN return(StructuredFailure(SyntaxErrorMessage))
        ELSE IF parsed.value.type = "null" THEN return(StructuredFailure(TypeErrorMessage))
        ELSE IF MissingInput(testType, domain)
        THEN return([statusCode |-> 400,
                     headers |-> {},
                     body |-> Obj([error |->
                                Str(<<"Missing 'testType' or 'domain' in request body">>)])])
        ELSE [response |-> NoResponse, call |-> TRUE,
              prompt |-> StructuredPrompt(testType, domain)]

\* The reply parsed outside the try block's reach: a reply that is not JSON
\* is answered 200 with the raw text as the scenario.
StructuredHandlerRespondUnguarded(outcome) ==
    LET generatedJson == JSONParse(outcome.text)
    IN  IF outcome.kind = "error" THEN StructuredFailure(UpstreamErrorMessage)
        ELSE [statusCode |-> 200,
              headers |-> {<<"Content-Type", "application/json">>},
              body |-> IF generatedJson.ok THEN generatedJson.value
                       ELSE Obj([scenario |-> Str(outcome.text)])]

StructuredHandlerRespond(outcome) ==
    LET generatedJson == JSONParse(outcome.text)
    IN  IF outcome.kind = "error" THEN StructuredFailure(UpstreamErrorMessage)
        ELSE IF ~generatedJson.ok THEN StructuredFailure(SyntaxErrorMessage)
        ELSE [statusCode |-> 200,
              headers |-> {<<"Content-Type", "application/json">>},
              body |-> generatedJson.value]

StructuredHandlerStart ==
    /\ pc = "idle"
    /\ \E ev \in Events :
         LET r == StructuredHandlerEnter(ev)
         IN  /\ fn' = "structured"
             /\ event' = ev
             /\ prompt' = r.prompt
             /\ calls' = IF r.call THEN 1 ELSE 0
             /\ pc' = IF r.call THEN "awaiting" ELSE "done"
             /\ response' = r.response
    /\ upstream' = NoUpstream
    /\ UNCHANGED apiKeySet

StructuredHandlerSettle(outcome) ==
    /\ upstream' = outcome
    /\ response' = StructuredHandlerRespond(outcome)
    /\ pc' = "done"
    /\ UNCHANGED <<apiKeySet, fn, event, prompt, calls>>

StructuredHandlerResume ==
    /\ pc = "awaiting"
    /\ fn = "structured"
    /\ apiKeySet
    /\ \E t \in JsonReplies : StructuredHandlerSettle(Reply(t))

StructuredHandlerCatch ==
    /\ pc = "awaiting"
    /\ fn = "structured"
    /\ StructuredHandlerSettle(UpstreamError)

Next ==
    \/ TextHandlerStart
    \/ TextHandlerResume
    \/ TextHandlerCatch
    \/ StructuredHandlerStart
    \/ StructuredHandlerResume
    \/ StructuredHandlerCatch

Spec == Init /\ [][Next]_vars

----------------------------------------------------------------------------
(* Vocabulary of the properties. *)

Done == pc = "done"
Post == event.httpMethod = "POST"
ParsedBody == JSONParse(event.body)

\* The request body is a JSON object.
BodyIsObject == ParsedBody.ok /\ ParsedBody.value.type = "object"
\* The request body is a JSON object holding both keys.
BodyHasBoth == BodyIsObject /\ {"testType", "domain"} \subseteq DOMAIN ParsedBody.value.val
\* The request body is a JSON object lacking testType or domain (or both).
BodyMissesKey == BodyIsObject /\ ~BodyHasBoth

\* The generation call of a text-mode invocation replied with text.
TextReplied == Done /\ fn = "text" /\ upstream.kind = "text"
StructuredReplied == Done /\ fn = "structured" /\ upstream.kind = "text"

FieldNames == <<"scenario", "dataStructure", "hypotheses", "spssGuide">>
HeadingOrder == <<"scenario:", "data structure:", "hypotheses:", "spss instructional guide:">>
Fallbacks == <<ScenarioFallback, DataStructureFallback, HypothesesFallback, SpssGuideFallback>>
FieldIndex == 1..Len(FieldNames)

\* Field k of the body of the response.
Field(k) == response.body.val[FieldNames[k]]

\* Where heading k stands in the text, and where any heading stands.
Occurrences(text, k) == {i \in 1..Len(text) : Lower(text[i]) = HeadingOrder[k]}
HeadingAt(text, i) == \E k \in FieldIndex : Lower(text[i]) = HeadingOrder[k]
Pos(text, k) == CHOOSE i \in Occurrences(text, k) : TRUE

\* Exactly the headings K occur, once each and in the documented order.
OnceInOrder(text, K) ==
    /\ \A k \in FieldIndex : Cardinality(Occurrences(text, k)) = IF k \in K THEN 1 ELSE 0
    /\ \A k, l \in K : k < l => Pos(text, k) < Pos(text, l)

\* The section of heading k: from behind the heading up to the next heading
\* in the text, or to the end of the text.
SectionBody(text, k) ==
    LET later == {i \in (Pos(text, k) + 1)..Len(text) : HeadingAt(text, i)}
        stop == IF later = {} THEN Len(text) + 1
                ELSE CHOOSE i \in later : \A j \in later : i <= j
    IN  SubSeq(text, Pos(text, k) + 1, stop - 1)

RECURSIVE Stripped(_)
Stripped(s) ==
    IF s = <<>> THEN s
    ELSE IF Head(s) \in Whitespace THEN Stripped(Tail(s))
    ELSE IF s[Len(s)] \in Whitespace THEN Stripped(SubSeq(s, 1, Len(s) - 1))
    ELSE s

\* All four headings, once each, in order, every section body non-empty.
WellFormed(text) ==
    /\ OnceInOrder(text, FieldIndex)
    /\ \A k \in FieldIndex : Stripped(SectionBody(text, k)) # <<>>

----------------------------------------------------------------------------
(* Properties. *)

\* C1, as stated: every POST request whose body is a JSON object lacking
\* testType or domain is answered with status 400, by either handler and
\* whether or not GEMINI_API_KEY is set.
C1_MissingKeyAlways400 ==
    (Done /\ Post /\ BodyMissesKey) => response.statusCode = 400

\* C1, amended: such a request is answered with status 400 by the text-mode
\* handler in every configuration and by the structured-mode handler when
\* GEMINI_API_KEY is set; with the key unset the structured-mode handler
\* answers it with the 500 configuration error, before it looks at the body.
C1_MissingKey400UnlessUnconfigured ==
    (Done /\ Post /\ BodyMissesKey) =>
        IF fn = "structured" /\ ~apiKeySet
        THEN response = ConfigurationFailure
        ELSE response.statusCode = 400

C1_Witness ==
    /\ Done /\ Post /\ BodyMissesKey
    /\ fn = "text" /\ ~apiKeySet
    /\ event.body = <<"{", "dm", "}">>
    /\ response.statusCode = 400

\* C2: every request whose method is not POST is answered with status 405
\* and the header Allow: POST, by either handler.
C2_NonPost405WithAllow ==
    (Done /\ ~Post) =>
        /\ response.statusCode = 405
        /\ <<"Allow", "POST">> \in response.headers

\* C3: a POST request whose body is malformed JSON, or JSON that is not an
\* object (null), is answered with status 400, never 500.
C3_UnparseableBody400 ==
    (Done /\ Post /\ ~BodyIsObject) => response.statusCode = 400

\* C4: the body of every response with status 200 is a record holding
\* scenario, dataStructure, hypotheses and spssGuide, each a string.
C4_SuccessRecordComplete ==
    response.statusCode = 200 =>
        /\ response.body.type = "object"
        /\ \A k \in FieldIndex :
             /\ FieldNames[k] \in DOMAIN response.body.val
             /\ Field(k).type = "string"

\* C5: when the reply text holds the four headings once each, in order, with
\* non-empty bodies, every field of the text-mode response equals the trimmed
\* text between its heading and the next heading (the end of the text for
\* the last one), and holds no heading.
C5_WellFormedExtraction ==
    (TextReplied /\ WellFormed(upstream.text)) =>
        /\ response.statusCode = 200
        /\ \A k \in FieldIndex :
             /\ Field(k) = Str(Stripped(SectionBody(upstream.text, k)))
             /\ \A i \in 1..Len(Field(k).val) : ~HeadingAt(Field(k).val, i)

C5_Witness ==
    /\ TextReplied /\ WellFormed(upstream.text)
    /\ response.statusCode = 200
    /\ SectionBody(upstream.text, 1) # Stripped(SectionBody(upstream.text, 1))
    /\ SectionBody(upstream.text, 1) # SectionBody(upstream.text, 2)
    /\ Pos(upstream.text, 1) > 1

\* C6: for every reply text the text-mode handler answers 200, and a field
\* whose heading is not found, or whose capture is empty after trimming, holds
\* its placeholder: no field is the empty string.
C6_FallbackForMissingOrEmpty ==
    TextReplied =>
        /\ response.statusCode = 200
        /\ \A k \in FieldIndex :
             /\ Occurrences(upstream.text, k) = {} => Field(k) = Str(Fallbacks[k])
             /\ Field(k).val # <<>>

\* C7: when the reply text holds three of the four headings, once each and in
\* order, and lacks the fourth, the field of the missing heading holds its
\* placeholder and each other field equals the trimmed body of its own section.
C7_OneHeadingMissing ==
    TextReplied =>
        \A m \in FieldIndex :
            OnceInOrder(upstream.text, FieldIndex \ {m}) =>
                /\ Field(m) = Str(Fallbacks[m])
                /\ \A k \in FieldIndex \ {m} :
                     Field(k) = Str(Stripped(SectionBody(upstream.text, k)))

\* C8: when the reply text is not valid JSON, the structured-mode handler
\* answers with a 5xx status and a body holding an error message and at most
\* the details besides; never 200, never a scenario record.
C8_InvalidJsonReplyFails ==
    (StructuredReplied /\ ~JSONParse(upstream.text).ok) =>
        /\ response.statusCode \in 500..599
        /\ response.body.type = "object"
        /\ "error" \in DOMAIN response.body.val
        /\ DOMAIN response.body.val \subseteq {"error", "details"}

C8_Witness ==
    /\ StructuredReplied
    /\ upstream.text = <<"{", "sc", ",", "rest">>
    /\ response.statusCode = 500

\* C9: a request that fails validation (its method is not POST, or its body
\* does not hold both testType and domain) never has a generation call
\* started for it, nor is a call started for a request answered 400 or 405.
C9_NoCallBeforeValidation ==
    /\ (event # NoEvent /\ (~Post \/ ~BodyHasBoth)) => (calls = 0 /\ upstream = NoUpstream)
    /\ response.statusCode \in {400, 405} => calls = 0

C9_Witness ==
    /\ Done /\ Post /\ BodyMissesKey /\ apiKeySet
    /\ fn = "structured"
    /\ response.statusCode = 400
    /\ calls = 0

\* C10: with GEMINI_API_KEY unset, a valid POST request has no generation
\* call started for it and is answered with a 500 configuration error that
\* differs from the answer to a failed generation call.
C10_MissingCredentialReported ==
    (~apiKeySet /\ Post /\ BodyHasBoth) =>
        /\ calls = 0
        /\ Done => /\ response.statusCode = 500
                   /\ response # TextFailure(UpstreamErrorMessage)
                   /\ response # StructuredFailure(UpstreamErrorMessage)

====
